---- MODULE Spec2Model ----
(***************************************************************************)
(* A model of UI5Element.js (packages/base/src): the per-instance state,   *)
(* the generated property accessors, slot distribution (_updateSlots),     *)
(* child-change propagation and the invalidation / render cycle.           *)
(*                                                                         *)
(* JavaScript is single threaded: every action below is one synchronous    *)
(* run of a handler up to its next suspension point (an await on a         *)
(* custom-element definition, on the render task, or the end of a          *)
(* callback).  Strings that the code parses or formats (the slot           *)
(* attribute) are sequences of characters.                                 *)
(***************************************************************************)
EXTENDS Integers, Sequences, FiniteSets, TLC

\* ------------------------------------------------------------------ bounds
MaxPasses == 2   \* distribution passes of one host that may be in flight
MaxWrites == 2   \* property writes counted in one batch (the counter is capped)
MaxMutations == 2 \* light-DOM mutations (removeChild / appendChild) in one run
MaxConnects == 2 \* connectedCallback invocations of one host in one run
MaxDefines == 3  \* define() invocations in one run
MaxObjects == 4  \* arrays and objects allocated in one run
MaxItems == 1    \* entries added to one array or object

\* ------------------------------------------------------------------ nodes
Hosts == {"P", "Q"}

\* the host that has the children when the instances are created; Q is a second
\* instance of the host class, without children
OneHost == {"P"}
Kids == {"a", "b", "c"}
Nodes == Hosts \cup Kids

\* localName of every element
TagOf == [n \in Nodes |->
            CASE n \in Hosts -> "ui5-host"
              [] n = "a" -> "ui5-item-a"
              [] n = "b" -> "ui5-item-b"
              [] OTHER   -> "div"]

Tags == {TagOf[n] : n \in Nodes}

\* localName.includes("-")
CustomTags == {"ui5-host", "ui5-item-a", "ui5-item-b"}

\* ------------------------------------------------------------- characters
Digits == <<"0", "1", "2", "3", "4", "5", "6", "7", "8", "9">>

IsDigit(ch) == \E i \in 1..10 : Digits[i] = ch

\* String(n) for a natural number, as characters
RECURSIVE NatToChars(_)
NatToChars(n) ==
    IF n < 10 THEN <<Digits[n + 1]>>
    ELSE NatToChars(n \div 10) \o <<Digits[(n % 10) + 1]>>

SlotDefault == <<"d", "e", "f", "a", "u", "l", "t">>
SlotX == <<"x">>
SlotUnknown == <<"z">>

\* ---------------------------------------------------------------- metadata
\* The classes of the run.  A host class declares two String properties and two
\* slots; the item classes have no template and differ in their property names.
PropsOfTag(t) ==
    CASE t = "ui5-host"   -> {"p", "q"}
      [] t = "ui5-item-a" -> {"text", "sel"}
      [] t = "ui5-item-b" -> {"icon", "sel"}
      [] OTHER            -> {}

AllProps == {"p", "q", "text", "icon", "sel"}

TypeOfProp(p) == IF p = "sel" THEN "Boolean" ELSE "String"

\* static get template: only the host class renders a shadow root
HasTemplate(t) == t = "ui5-host"

\* getSlots() of the host class
SlotsMap ==
    (SlotDefault :> [propertyName |-> "content", individualSlots |-> FALSE,
                     listenFor |-> [kind |-> "object", hasProps |-> TRUE,
                                    props |-> {"text", "sel"},
                                    hasExclude |-> TRUE, exclude |-> {"sel"}]])
    @@
    (SlotX :> [propertyName |-> "items", individualSlots |-> TRUE,
               listenFor |-> [kind |-> "object", hasProps |-> FALSE,
                              props |-> {},
                              hasExclude |-> TRUE, exclude |-> {"sel"}]])

SlotNames == DOMAIN SlotsMap
SlotProps == {SlotsMap[s].propertyName : s \in SlotNames}

\* ------------------------------------------------------------ _getSlotName
\* slot.match(/^(.+?)-\d+$/): the shortest non-empty prefix followed by "-" and
\* by digits up to the end of the string.
SuffixIsDigits(s, k) ==
    /\ k + 2 <= Len(s)
    /\ s[k + 1] = "-"
    /\ \A j \in (k + 2)..Len(s) : IsDigit(s[j])

MatchPrefixes(s) == {k \in 1..Len(s) : SuffixIsDigits(s, k)}

Min(S) == CHOOSE x \in S : \A y \in S : x <= y

\* child.getAttribute("slot") is slotAttr; every node of the model is an HTMLElement
GetSlotName(slot) ==
    IF slot # <<>>
    THEN IF MatchPrefixes(slot) # {}
         THEN SubSeq(slot, 1, Min(MatchPrefixes(slot)))
         ELSE slot
    ELSE SlotDefault

\* `${slotName}-${nextId}`
IndividualSlotName(slotName, nextId) == slotName \o <<"-">> \o NatToChars(nextId)

\* ------------------------------------------------------ component classes
\* The classes that call define(): ItemA and ItemA2 declare the same tag, Flagged
\* gives a Boolean property the default true, Clash names a property "children"
Klasses == {"ItemA", "ItemA2", "ItemB", "Flagged", "Clash"}

\* getMetadata().getTag()
KlassTag ==
    [k \in Klasses |->
        CASE k \in {"ItemA", "ItemA2"} -> "ui5-item-a"
          [] k = "ItemB" -> "ui5-item-b"
          [] k = "Flagged" -> "ui5-flagged"
          [] k = "Clash" -> "ui5-clash"]

AllTags == CustomTags \cup {KlassTag[k] : k \in Klasses}

\* the classes with a static onDefine
HasOnDefine(k) == k \in {"ItemA", "Flagged"}

\* getMetadata().getProperties(): type is the constructor named in the
\* metadata (Boolean, String), defaultValue is "undefined" when the key is absent
KlassProps(k) ==
    CASE k = "Flagged" ->
            {[name |-> "active", type |-> "Boolean", defaultValue |-> "T"],
             [name |-> "text", type |-> "String", defaultValue |-> "undefined"]}
      [] k = "Clash" ->
            {[name |-> "children", type |-> "String", defaultValue |-> "undefined"]}
      [] OTHER ->
            {[name |-> prop, type |-> TypeOfProp(prop), defaultValue |-> "undefined"] :
                prop \in PropsOfTag(KlassTag[k])}

\* isValidPropertyName: a name that collides with a DOM API is not valid
IsValidPropertyName(name) == name \notin {"children"}

\* JavaScript truthiness of a metadata value
Truthy(v) == v \notin {"undefined", "F", ""}

\* ---------------------------------------------------------------- variables
\* ------------------------------------------------------ instance state
\* Two instances of one class whose metadata declares a String property title,
\* a multiple property tags, an Object property cfg without defaultValue and a
\* slot items.  The arrays and objects live in a heap; _state and _defaultState
\* hold a string for title and a reference (an index of the heap) for the rest.
Insts == {"i1", "i2"}

RefProps == {"tags", "cfg", "items"}

\* this._state / this._defaultState before they are assigned (0: no reference)
NoState == [title |-> "undefined", tags |-> 0, cfg |-> 0, items |-> 0]

NoValues == [title |-> "undefined", tags |-> <<>>, cfg |-> <<>>, items |-> <<>>]

\* the values a state record denotes: every reference followed
Deref(h, st) ==
    [title |-> st.title,
     tags |-> IF st.tags = 0 THEN <<>> ELSE h[st.tags],
     cfg |-> IF st.cfg = 0 THEN <<>> ELSE h[st.cfg],
     items |-> IF st.items = 0 THEN <<>> ELSE h[st.items]]

\* the defaults of the metadata, as values
DefaultValues == [title |-> "", tags |-> <<>>, cfg |-> <<>>, items |-> <<>>]

\* _getDefaultState(): the cached object if there is one, else a new object
\* with "" for the String property and a new [] / {} / [] for the multiple
\* property, the Object property and the slot, which is then cached
GetDefaultState(h, cached) ==
    IF cached # NoState
    THEN [heap |-> h, defaultState |-> cached]
    ELSE [heap |-> h \o <<<<>>, <<>>, <<>>>>,
          defaultState |-> [title |-> "", tags |-> Len(h) + 1, cfg |-> Len(h) + 2,
                            items |-> Len(h) + 3]]

\* Object.assign({}, defaultState): a new object with the same field values,
\* a reference being copied as a reference
ObjectAssign(defaults) == [prop \in DOMAIN defaults |-> defaults[prop]]

VARIABLES
    lightDom,      \* [Hosts -> Seq(Kids)]: this.children, in document order
    slotAttr,      \* [Kids -> chars]: the child's slot attribute (<<>>: none)
    indiv,         \* [Kids -> chars]: child._individualSlot (<<>>: undefined)
    listening,     \* [Kids -> BOOLEAN]: the _propertyChange listener is attached
    state,         \* [Nodes -> [property -> value]]: this._state, the properties
    slotState,     \* [Hosts -> [SlotProps -> Seq(Kids)]]: this._state, the slots
    attrs,         \* [Nodes -> [property -> value | "null"]]: the DOM attributes
    invalidated,   \* [Nodes -> BOOLEAN]: this._invalidated
    suppress,      \* [Nodes -> BOOLEAN]: this._suppressInvalidation
    shadow,        \* [Nodes -> BOOLEAN]: the shadow root has rendered children
    monitored,     \* [Hosts -> [slot name -> record]]: this._monitoredChildProps
    queue,         \* Seq(Nodes): deferred render tasks of the scheduler
    immediate,     \* Seq([node, call]): immediate renders requested, not yet run
    passes,        \* Seq(pass record): _updateSlots calls suspended at an await
    defined,       \* set of tags: window.customElements
    timers,        \* Seq(tags): elementTimeouts whose setTimeout has not fired
    timedOut,      \* set of tags: elementTimeouts whose promise is resolved
    observing,     \* [Hosts -> BOOLEAN]: DOMObserver watches the host
    mutated,       \* [Hosts -> BOOLEAN]: child-list records wait for delivery
    inDoc,         \* [Hosts -> BOOLEAN]: the host is connected
    calls,         \* Seq([host, stage]): the connectedCallback invocations
    ready,         \* [Hosts -> BOOLEAN]: _domRefReadyPromise is resolved
    cls,           \* the host class: [hooks: set of hook names, staticArea]
    rendered,      \* [Hosts -> record]: what the last _render of the host read
    trace,         \* Seq(<<event, argument>>): what the last handler run did
    hist,          \* [Hosts -> Seq(event)]: lifecycle events of the host so far
    batch,         \* [Hosts -> record]: the writes since the last render
    committed,     \* [Hosts -> slots]: the slots as the last finished pass left them
    nmut,          \* light-DOM mutations made so far
    defineCalls,   \* Seq([klass, stage]): the define() invocations
    definitionsSet, \* Seq(tags): DefinitionsSet, in insertion order
    accessors,     \* [Klasses -> Nat]: runs of _generateAccessors of the class
    ceDefines,     \* [tags -> Nat]: customElements.define calls made by define()
    registeredBy,  \* [tags -> class name]: the class customElements holds for a tag
    heap,          \* Seq(Seq(item)): the arrays and objects allocated so far
    defaultState,  \* the class's cached _defaultState: values and references
    instState,     \* [Insts -> record]: this._state of the instances of the class
    owned          \* [Insts -> record]: the values the instance's own writes made

domVars == <<lightDom, slotAttr, indiv, listening>>
stateVars == <<state, slotState, attrs, invalidated, suppress, shadow, monitored>>
schedVars == <<queue, immediate>>
passVars == <<passes, timers>>
regVars == <<defined, timedOut>>
connVars == <<observing, mutated, inDoc, calls, ready>>
histVars == <<rendered, trace, hist, batch, committed, nmut>>
objVars == <<heap, defaultState, instState, owned>>
classVars == <<defineCalls, definitionsSet, accessors, ceDefines, registeredBy, objVars>>

vars == <<lightDom, slotAttr, indiv, listening, state, slotState, attrs,
          invalidated, suppress, shadow, monitored, queue, immediate, passes,
          defined, timers, timedOut, observing, mutated, inDoc, calls, ready,
          cls, rendered, trace, hist, batch, committed, nmut, defineCalls,
          definitionsSet, accessors, ceDefines, registeredBy, heap, defaultState,
          instState, owned>>

\* ------------------------------------------------------------------ helpers
Count(seq, x) == Cardinality({i \in 1..Len(seq) : seq[i] = x})

Range(seq) == {seq[i] : i \in 1..Len(seq)}

NoNode == "none"

\* child.parentNode
ParentOf(c) ==
    IF \E h \in Hosts : c \in Range(lightDom[h])
    THEN CHOOSE h \in Hosts : c \in Range(lightDom[h])
    ELSE NoNode

\* child.isUI5Element: the element is an upgraded instance of a defined class
IsUI5Element(w, c) == TagOf[c] \in CustomTags /\ TagOf[c] \in w.defined

\* The values a handler run reads and writes, threaded through its calls.
World ==
    [state |-> state, slotState |-> slotState, attrs |-> attrs,
     inv |-> invalidated, sup |-> suppress, shadow |-> shadow,
     monitored |-> monitored, q |-> queue, listening |-> listening,
     indiv |-> indiv, slotAttr |-> slotAttr, timers |-> timers,
     defined |-> defined, timedOut |-> timedOut,
     rendered |-> rendered, batch |-> batch, committed |-> committed,
     fx |-> <<>>]

Fx(w, ev, arg) == [w EXCEPT !.fx = Append(@, <<ev, arg>>)]

\* getDomRef(): defined once the shadow root has rendered children
GetDomRef(w, n) == w.shadow[n]

\* ------------------------------------------------- metadata collaborators
\* UI5ElementMetadata.validatePropertyValue: boolean coercion for a Boolean
\* property, passthrough for a String property.
Falsy == {"F", "", "null", "undefined"}

ValidatePropertyValue(raw, type) ==
    IF type = "Boolean"
    THEN IF raw \in Falsy THEN "F" ELSE "T"
    ELSE raw

\* UI5ElementMetadata.validatePropertyValue rejects the value: an object given
\* to a String property is not valid, every value can be coerced to a Boolean
ValidationFails(raw, type) == type = "String" /\ raw = "#object"

\* UI5ElementMetadata.hasAttribute: "q" is declared without an attribute
HasAttribute(name) == name # "q"

\* ------------------------------------------------------ invalidation core
\* _invalidate() that sets the flag and does not hand the instance to the scheduler
InvalidateFlagOnly(w, n) ==
    LET w0 == Fx(w, "_invalidate", n) IN
    IF w0.inv[n]
    THEN w0
    ELSE IF GetDomRef(w0, n) /\ ~w0.sup[n]
         THEN [w0 EXCEPT !.inv[n] = TRUE]
         ELSE w0

\* _invalidate() that does not look at this._invalidated
InvalidateNoCoalesce(w, n) ==
    LET w0 == Fx(w, "_invalidate", n) IN
    IF GetDomRef(w0, n) /\ ~w0.sup[n]
    THEN Fx([w0 EXCEPT !.inv[n] = TRUE, !.q = Append(@, n)], "renderDeferred", n)
    ELSE w0

\* _invalidate() that does not look at this._suppressInvalidation
InvalidateIgnoresSuppress(w, n) ==
    LET w0 == Fx(w, "_invalidate", n) IN
    IF w0.inv[n]
    THEN w0
    ELSE IF GetDomRef(w0, n)
         THEN Fx([w0 EXCEPT !.inv[n] = TRUE, !.q = Append(@, n)],
                 "renderDeferred", n)
         ELSE w0

\* _invalidate()
Invalidate(w, n) ==
    LET w0 == Fx(w, "_invalidate", n) IN
    IF w0.inv[n]
    THEN w0
    ELSE IF GetDomRef(w0, n) /\ ~w0.sup[n]
         THEN Fx([w0 EXCEPT !.inv[n] = TRUE, !.q = Append(@, n)],
                 "renderDeferred", n)
         ELSE w0

\* The host that holds the child in one of its slots
SlotHostOf(w, child) ==
    IF \E h \in Hosts : \E sp \in SlotProps : child \in Range(w.slotState[h][sp])
    THEN CHOOSE h \in Hosts : \E sp \in SlotProps : child \in Range(w.slotState[h][sp])
    ELSE NoNode

\* _invalidateParentOnPropertyUpdate(prop) that, for a child without parentNode,
\* goes on with the host that still holds the child in a slot
InvalidateFormerParent(w, child, name) ==
    LET parentNode == IF ParentOf(child) # NoNode THEN ParentOf(child)
                      ELSE SlotHostOf(w, child) IN
    IF parentNode = NoNode
    THEN w
    ELSE LET slotName == GetSlotName(w.slotAttr[child]) IN
         IF slotName \notin DOMAIN w.monitored[parentNode]
         THEN w
         ELSE LET propsMetadata == w.monitored[parentNode][slotName] IN
              IF /\ name \in propsMetadata.observedProps
                 /\ name \notin propsMetadata.notObservedProps
              THEN Invalidate(Fx(w, "_parent_", parentNode), parentNode)
              ELSE w

\* _invalidateParentOnPropertyUpdate(prop), this = the child
InvalidateParentOnPropertyUpdate(w, child, name) ==
    LET parentNode == ParentOf(child) IN
    IF parentNode = NoNode
    THEN w
    ELSE LET slotName == GetSlotName(w.slotAttr[child]) IN
         IF slotName \notin DOMAIN w.monitored[parentNode]
         THEN w
         ELSE LET propsMetadata == w.monitored[parentNode][slotName] IN
              IF /\ name \in propsMetadata.observedProps
                 /\ name \notin propsMetadata.notObservedProps
              THEN Invalidate(Fx(w, "_parent_", parentNode), parentNode)
              ELSE w

\* dispatchEvent of the _propertyChange event: the listeners of the element
DispatchPropertyChange(w, n, name) ==
    LET w0 == Fx(w, "_propertyChange", n) IN
    IF n \in Kids /\ w0.listening[n]
    THEN InvalidateParentOnPropertyUpdate(w0, n, name)
    ELSE w0

RECURSIVE Setter(_, _, _, _)

\* attributeChangedCallback() that hands the attribute value to the setter as it is
AttributeChangedCallbackRaw(w, n, name, newValue) ==
    IF name \in PropsOfTag(TagOf[n])
    THEN Setter(w, n, name, newValue)
    ELSE w

\* attributeChangedCallback(name, oldValue, newValue)
AttributeChangedCallback(w, n, name, newValue) ==
    IF name \in PropsOfTag(TagOf[n])
    THEN Setter(w, n, name,
                IF TypeOfProp(name) = "Boolean"
                THEN (IF newValue # "null" THEN "T" ELSE "F")
                ELSE newValue)
    ELSE w

\* setAttribute / removeAttribute on the element: the browser then calls
\* attributeChangedCallback synchronously
SetAttribute(w, n, name, value) ==
    AttributeChangedCallback(
        Fx([w EXCEPT !.attrs[n][name] = value], "setAttribute", n),
        n, name, value)

\* _updateAttribute(name, newValue)
UpdateAttribute(w, n, name, newValue) ==
    IF ~HasAttribute(name)
    THEN w
    ELSE LET attrValue == w.attrs[n][name] IN
         IF TypeOfProp(name) = "Boolean"
         THEN IF newValue = "T" /\ attrValue = "null"
              THEN SetAttribute(w, n, name, "")
              ELSE IF newValue = "F" /\ attrValue # "null"
                   THEN SetAttribute(w, n, name, "null")
                   ELSE w
         ELSE IF attrValue # newValue
              THEN SetAttribute(w, n, name, newValue)
              ELSE w

\* _propertyChange(name, value)
PropertyChange(w, n, name, value) ==
    DispatchPropertyChange(UpdateAttribute(w, n, name, value), n, name)

\* a setter without the oldState !== value test
SetterAlways(w, n, prop, raw) ==
    LET value == ValidatePropertyValue(raw, TypeOfProp(prop)) IN
    PropertyChange(Invalidate([w EXCEPT !.state[n][prop] = value], n),
                   n, prop, value)

\* a setter that stores and notifies but does not call _invalidate
SetterForgetsInvalidate(w, n, prop, raw) ==
    LET value == ValidatePropertyValue(raw, TypeOfProp(prop))
        oldState == w.state[n][prop]
    IN  IF oldState # value
        THEN PropertyChange([w EXCEPT !.state[n][prop] = value], n, prop, value)
        ELSE w

\* a setter that stores the value it was given, then validates
SetterStoresFirst(w, n, prop, raw) ==
    LET w1 == [w EXCEPT !.state[n][prop] = raw] IN
    IF ValidationFails(raw, TypeOfProp(prop))
    THEN Fx(w1, "throw", n)
    ELSE LET value == ValidatePropertyValue(raw, TypeOfProp(prop))
             oldState == w.state[n][prop]
         IN  IF oldState # value
             THEN PropertyChange(
                      Invalidate([w EXCEPT !.state[n][prop] = value], n),
                      n, prop, value)
             ELSE w

\* the generated property setter; validatePropertyValue throws out of it
Setter(w, n, prop, raw) ==
    IF ValidationFails(raw, TypeOfProp(prop))
    THEN Fx(w, "throw", n)
    ELSE LET value == ValidatePropertyValue(raw, TypeOfProp(prop))
             oldState == w.state[n][prop]
         IN  IF oldState # value
             THEN PropertyChange(
                      Invalidate([w EXCEPT !.state[n][prop] = value], n),
                      n, prop, value)
             ELSE w

\* the generated property getter: the stored value, or the default of the type
\* when the stored value is undefined (a String property without defaultValue
\* then gives undefined)
Getter(st, n, prop) ==
    IF st[n][prop] # "undefined"
    THEN st[n][prop]
    ELSE IF TypeOfProp(prop) = "Boolean" THEN "F" ELSE "undefined"

\* ------------------------------------------------------ slot distribution
\* Object.entries(slotsMap): the slots in declaration order
SlotOrder == <<SlotDefault, SlotX>>

\* UI5ElementMetadata.validateSlotValue: every node of the model is an
\* HTMLElement and both slots accept HTMLElement, so the child is returned
ValidateSlotValue(child, slotData) == child

\* _detachChildPropertyUpdated(child)
DetachChildPropertyUpdated(w, child) ==
    Fx([w EXCEPT !.listening[child] = FALSE], "removeEventListener", child)

\* _attachChildPropertyUpdated(child, propData)
AttachChildPropertyUpdated(w, h, child, propData) ==
    LET listenFor == propData.listenFor
        childProperties == PropsOfTag(TagOf[child])
        slotName == GetSlotName(w.slotAttr[child])
        observedProps ==
            IF listenFor.kind = "array" THEN listenFor.props
            ELSE IF listenFor.hasProps THEN listenFor.props ELSE childProperties
        notObservedProps ==
            IF listenFor.kind = "array" THEN {}
            ELSE IF listenFor.hasExclude THEN listenFor.exclude ELSE {}
        w1 == IF slotName \notin DOMAIN w.monitored[h]
              THEN [w EXCEPT !.monitored[h] =
                       @ @@ (slotName :> [observedProps |-> observedProps,
                                          notObservedProps |-> notObservedProps])]
              ELSE w
    IN  IF listenFor.kind = "none"
        THEN w
        ELSE Fx([w1 EXCEPT !.listening[child] = TRUE], "addEventListener", child)

RECURSIVE DetachAll(_, _)
DetachAll(w, children) ==
    IF children = <<>>
    THEN w
    ELSE DetachAll(IF IsUI5Element(w, Head(children))
                   THEN DetachChildPropertyUpdated(w, Head(children))
                   ELSE w,
                   Tail(children))

\* _clearSlot(slotName)
ClearSlot(w, h, slotName) ==
    LET propertyName == SlotsMap[slotName].propertyName
        w1 == DetachAll(w, w.slotState[h][propertyName])
    IN  Invalidate([w1 EXCEPT !.slotState[h][propertyName] = <<>>], h)

RECURSIVE ClearSlots(_, _, _)
ClearSlots(w, h, slots) ==
    IF slots = <<>> THEN w
    ELSE ClearSlots(ClearSlot(w, h, Head(slots)), h, Tail(slots))

\* children.sort((a, b) => a.idx - b.idx)
InsertByIdx(e, sorted) ==
    LET k == Cardinality({i \in 1..Len(sorted) : sorted[i].idx <= e.idx})
    IN  SubSeq(sorted, 1, k) \o <<e>> \o SubSeq(sorted, k + 1, Len(sorted))

RECURSIVE SortByIdx(_)
SortByIdx(children) ==
    IF children = <<>> THEN <<>>
    ELSE InsertByIdx(Head(children), SortByIdx(Tail(children)))

\* .map(_ => _.child)
ChildrenOf(entries) == [i \in 1..Len(entries) |-> entries[i].child]

\* The rest of the per-child callback of _updateSlots, after its await: upgrade,
\* validateSlotValue, _attachChildPropertyUpdated, push into slottedChildrenMap.
\* pl is the pass: [w, auto, map, waiting, slotOf].
ChildAfterAwait(pl, h, child, idx, slotName) ==
    LET slotData == SlotsMap[slotName]
        child2 == ValidateSlotValue(child, slotData)
        w1 == IF IsUI5Element(pl.w, child2)
              THEN AttachChildPropertyUpdated(pl.w, h, child2, slotData)
              ELSE pl.w
        propertyName == slotData.propertyName
    IN  [pl EXCEPT !.w = w1,
                   !.map[propertyName] = Append(@, [child |-> child2, idx |-> idx])]

\* The per-child callback that awaits whenDefined alone, without a timeout
ChildSyncNoTimeout(pl, h, child, idx) ==
    LET slotName == GetSlotName(pl.w.slotAttr[child]) IN
    IF slotName \notin SlotNames
    THEN [pl EXCEPT !.w = Fx(@, "warnUnknownSlot", child)]
    ELSE
    LET nextId == pl.auto[slotName] + 1
        pl1 == IF SlotsMap[slotName].individualSlots
               THEN [pl EXCEPT !.auto[slotName] = nextId,
                               !.w.indiv[child] = IndividualSlotName(slotName, nextId)]
               ELSE pl
        localName == TagOf[child]
    IN  IF localName \in CustomTags /\ localName \notin pl.w.defined
        THEN [pl1 EXCEPT !.waiting = @ \cup {idx},
                         !.slotOf = @ @@ (idx :> slotName)]
        ELSE ChildAfterAwait(pl1, h, child, idx, slotName)

\* The per-child callback of _updateSlots up to its await
ChildSync(pl, h, child, idx) ==
    LET slotName == GetSlotName(pl.w.slotAttr[child]) IN
    IF slotName \notin SlotNames
    THEN [pl EXCEPT !.w = Fx(@, "warnUnknownSlot", child)]
    ELSE
    LET nextId == pl.auto[slotName] + 1
        pl1 == IF SlotsMap[slotName].individualSlots
               THEN [pl EXCEPT !.auto[slotName] = nextId,
                               !.w.indiv[child] = IndividualSlotName(slotName, nextId)]
               ELSE pl
        localName == TagOf[child]
        isDefined == localName \in pl.w.defined
        hasTimeout == localName \in Range(pl1.w.timers) \cup pl1.w.timedOut
        pl2 == IF hasTimeout THEN pl1
               ELSE [pl1 EXCEPT !.w.timers = Append(@, localName)]
    IN  IF localName \in CustomTags /\ ~isDefined
        THEN IF localName \in pl.w.timedOut
             THEN ChildAfterAwait(pl2, h, child, idx, slotName)
             ELSE [pl2 EXCEPT !.waiting = @ \cup {idx},
                              !.slotOf = @ @@ (idx :> slotName)]
        ELSE ChildAfterAwait(pl1, h, child, idx, slotName)

RECURSIVE ChildrenSync(_, _, _, _)
ChildrenSync(pl, h, dom, idx) ==
    IF idx > Len(dom) THEN pl
    ELSE ChildrenSync(ChildSync(pl, h, dom[idx], idx), h, dom, idx + 1)

\* _updateSlots() up to `await Promise.all(allChildrenUpgraded)`
UpdateSlotsSync(w, h, dom) ==
    ChildrenSync([w |-> ClearSlots(Fx(w, "_updateSlots", h), h, SlotOrder),
                  auto |-> [s \in SlotNames |-> 0],
                  map |-> [sp \in SlotProps |-> <<>>],
                  waiting |-> {},
                  slotOf |-> <<>>],
                 h, dom, 1)

\* the commit of _updateSlots() without the sort: the children in push order
CommitUnsorted(w, h, map) ==
    LET slots == [sp \in SlotProps |->
                     IF map[sp] # <<>> THEN ChildrenOf(map[sp])
                     ELSE w.slotState[h][sp]]
    IN  Invalidate(
            Fx([w EXCEPT !.slotState[h] = slots, !.committed[h] = slots],
               "commitSlots", h),
            h)

\* _updateSlots() after `await Promise.all(allChildrenUpgraded)`
CommitSlots(w, h, map) ==
    LET slots == [sp \in SlotProps |->
                     IF map[sp] # <<>> THEN ChildrenOf(SortByIdx(map[sp]))
                     ELSE w.slotState[h][sp]]
    IN  Invalidate(
            Fx([w EXCEPT !.slotState[h] = slots, !.committed[h] = slots],
               "commitSlots", h),
            h)

\* ------------------------------------------------------------------ render
\* History of the writes of a host: a batch is open from its first write to the
\* next render of the host, which closes it.
NoBatch == [writes |-> 0, eff |-> FALSE, fired |-> 0]

BatchWrite(b, changed) ==
    IF b.fired > 0
    THEN [writes |-> 1, eff |-> changed, fired |-> 0]
    ELSE [writes |-> IF b.writes < MaxWrites THEN b.writes + 1 ELSE b.writes,
          eff |-> b.eff \/ changed, fired |-> 0]

BatchRender(b) == IF b.writes > 0 /\ b.fired = 0 THEN [b EXCEPT !.fired = 1] ELSE NoBatch

\* instance[prop] = raw, with the history of the write
SetProp(w, n, prop, raw) ==
    LET w1 == Setter(w, n, prop, raw) IN
    IF n \in Hosts
    THEN [w1 EXCEPT !.batch[n] = BatchWrite(@, w1.state[n][prop] # w.state[n][prop])]
    ELSE w1

\* A lifecycle hook of the component class: user code that may write a property
\* of the instance.  write is <<>> or <<property, raw value>>.
RunHook(w, h, name, write) ==
    IF name \notin cls.hooks
    THEN w
    ELSE LET w1 == Fx(w, name, h) IN
         IF write = <<>> THEN w1 ELSE SetProp(w1, h, write[1], write[2])

\* _updateShadowRoot(): the template reads the state, the renderer fills the
\* shadow root
UpdateShadowRoot(w, h) ==
    Fx([w EXCEPT !.shadow[h] = TRUE,
                 !.rendered[h] = [props |-> w.state[h], slots |-> w.slotState[h],
                                  stable |-> w.committed[h]],
                 !.batch[h] = BatchRender(@)],
       "renderer", h)

\* staticAreaItem._updateFragment(this)
UpdateFragment(w, h) == IF cls.staticArea THEN Fx(w, "staticArea", h) ELSE w

\* _assignIndividualSlotsToChildren()
RECURSIVE AssignSlots(_, _)
AssignSlots(w, children) ==
    IF children = <<>> THEN w
    ELSE LET child == Head(children) IN
         AssignSlots(IF w.indiv[child] # <<>>
                     THEN [w EXCEPT !.slotAttr[child] = w.indiv[child]]
                     ELSE w,
                     Tail(children))

AssignIndividualSlotsToChildren(w, h) ==
    AssignSlots(Fx(w, "assignSlots", h), lightDom[h])

\* _render() that reassigns the slot attributes before the renderer runs
RenderAssignsFirst(w, h, hc) ==
    LET w1 == Fx([w EXCEPT !.sup[h] = TRUE], "suppress", h)
        w2 == RunHook(w1, h, "onBeforeRendering", hc.before)
        w3 == RunHook(w2, h, "_onComponentStateFinalized", hc.finalize)
        w4 == Fx([w3 EXCEPT !.sup[h] = FALSE], "unsuppress", h)
        w5 == [w4 EXCEPT !.inv[h] = FALSE]
        w6 == AssignIndividualSlotsToChildren(w5, h)
        w7 == UpdateShadowRoot(w6, h)
        w8 == UpdateFragment(w7, h)
    IN  RunHook(w8, h, "onAfterRendering", hc.after)

\* _render(); hc gives what each hook writes
Render(w, h, hc) ==
    LET w1 == Fx([w EXCEPT !.sup[h] = TRUE], "suppress", h)
        w2 == RunHook(w1, h, "onBeforeRendering", hc.before)
        w3 == RunHook(w2, h, "_onComponentStateFinalized", hc.finalize)
        w4 == Fx([w3 EXCEPT !.sup[h] = FALSE], "unsuppress", h)
        w5 == [w4 EXCEPT !.inv[h] = FALSE]
        w6 == UpdateShadowRoot(w5, h)
        w7 == UpdateFragment(w6, h)
        w8 == AssignIndividualSlotsToChildren(w7, h)
    IN  RunHook(w8, h, "onAfterRendering", hc.after)

HookWrites(name, writes) == IF name \in cls.hooks THEN writes ELSE {<<>>}

HookChoices ==
    [before : HookWrites("onBeforeRendering", {<<>>, <<"p", "w">>}),
     finalize : HookWrites("_onComponentStateFinalized", {<<>>, <<"q", "v">>}),
     after : HookWrites("onAfterRendering", {<<>>, <<"p", "v">>})]

\* ------------------------------------------- resuming suspended passes
\* The indices of a set in increasing order
RECURSIVE Ascending(_)
Ascending(S) == IF S = {} THEN <<>> ELSE <<Min(S)>> \o Ascending(S \ {Min(S)})

\* The children of one pass whose await on tag t ends continue, in the order in
\* which they started to wait
RECURSIVE ResumeChildren(_, _, _)
ResumeChildren(pl, pass, idxs) ==
    IF idxs = <<>> THEN pl
    ELSE ResumeChildren(
             ChildAfterAwait(pl, pass.host, pass.dom[Head(idxs)], Head(idxs),
                             pass.slotOf[Head(idxs)]),
             pass, Tail(idxs))

ResumePass(w, pass, t) ==
    LET idxs == {i \in pass.waiting : TagOf[pass.dom[i]] = t}
        pl == ResumeChildren([w |-> w, map |-> pass.map], pass, Ascending(idxs))
    IN  [w |-> pl.w,
         pass |-> [pass EXCEPT !.map = pl.map, !.waiting = @ \ idxs]]

\* r is [w, ps]: the world and the passes already gone through
RECURSIVE ResumePasses(_, _, _)
ResumePasses(r, rest, t) ==
    IF rest = <<>> THEN r
    ELSE LET one == ResumePass(r.w, Head(rest), t) IN
         ResumePasses([w |-> one.w, ps |-> Append(r.ps, one.pass)], Tail(rest), t)

\* Every pass with no child left to wait for passes its
\* `await Promise.all(...)` and commits, in the order the passes started
RECURSIVE CommitDone(_, _)
CommitDone(w, ps) ==
    IF ps = <<>> THEN w
    ELSE CommitDone(IF Head(ps).waiting = {}
                    THEN CommitSlots(Fx(w, "domChildren", Head(ps).dom),
                                     Head(ps).host, Head(ps).map)
                    ELSE w,
                    Tail(ps))

IsDone(pass) == pass.waiting = {}
IsWaiting(pass) == pass.waiting # {}

\* --------------------------------------------------------------------- Init
\* _getDefaultState(): false for a Boolean, "" for a String without defaultValue
DefaultOf(prop) == IF TypeOfProp(prop) = "Boolean" THEN "F" ELSE ""

DefaultState(n) == [prop \in PropsOfTag(TagOf[n]) |-> DefaultOf(prop)]

EmptySlots == [sp \in SlotProps |-> <<>>]

FullClass == [hooks |-> {"onBeforeRendering", "_onComponentStateFinalized",
                         "onAfterRendering", "onEnterDOM", "onExitDOM"},
              staticArea |-> TRUE]
BareClass == [hooks |-> {}, staticArea |-> FALSE]

\* The state after the constructors have run: dom is the light DOM of the host,
\* sattr the slot attributes of the children, defs the defined tags
InitWith(dom, sattr, defs, classes) ==
    /\ lightDom = [h \in Hosts |-> IF h \in OneHost THEN dom ELSE <<>>]
    /\ slotAttr = sattr
    /\ indiv = [k \in Kids |-> <<>>]
    /\ listening = [k \in Kids |-> FALSE]
    /\ state = [n \in Nodes |-> DefaultState(n)]
    /\ slotState = [h \in Hosts |-> EmptySlots]
    /\ attrs = [n \in Nodes |-> [prop \in PropsOfTag(TagOf[n]) |-> "null"]]
    /\ invalidated = [n \in Nodes |-> FALSE]
    /\ suppress = [n \in Nodes |-> FALSE]
    /\ shadow = [n \in Nodes |-> FALSE]
    /\ monitored = [h \in Hosts |-> <<>>]
    /\ queue = <<>>
    /\ immediate = <<>>
    /\ passes = <<>>
    /\ defined = defs
    /\ timers = <<>>
    /\ timedOut = {}
    /\ observing = [h \in Hosts |-> FALSE]
    /\ mutated = [h \in Hosts |-> FALSE]
    /\ inDoc = [h \in Hosts |-> FALSE]
    /\ calls = <<>>
    /\ ready = [h \in Hosts |-> FALSE]
    /\ cls \in classes
    /\ rendered = [h \in Hosts |->
                     [props |-> DefaultState(h), slots |-> EmptySlots,
                      stable |-> EmptySlots]]
    /\ trace = <<>>
    /\ hist = [h \in Hosts |-> <<>>]
    /\ batch = [h \in Hosts |-> NoBatch]
    /\ committed = [h \in Hosts |-> EmptySlots]
    /\ nmut = 0
    /\ defineCalls = <<>>
    /\ definitionsSet = <<>>
    /\ accessors = [k \in Klasses |-> 0]
    /\ ceDefines = [t \in AllTags |-> 0]
    /\ registeredBy = [t \in AllTags |-> IF t \in defs THEN "other" ELSE "none"]
    /\ heap = <<>>
    /\ defaultState = NoState
    /\ instState = [i \in Insts |-> NoState]
    /\ owned = [i \in Insts |-> NoValues]

\* ------------------------------------------------------------------ actions
\* The handler run ends: its effects become the state
Apply(w) ==
    /\ state' = w.state
    /\ slotState' = w.slotState
    /\ attrs' = w.attrs
    /\ invalidated' = w.inv
    /\ suppress' = w.sup
    /\ shadow' = w.shadow
    /\ monitored' = w.monitored
    /\ queue' = w.q
    /\ listening' = w.listening
    /\ indiv' = w.indiv
    /\ slotAttr' = w.slotAttr
    /\ timers' = w.timers
    /\ defined' = w.defined
    /\ timedOut' = w.timedOut
    /\ rendered' = w.rendered
    /\ batch' = w.batch
    /\ committed' = w.committed
    /\ trace' = w.fx

\* _processChildren() -> _updateSlots(), run until it suspends or returns; the
\* pass remembers whether its _clearSlot calls queued a render task (asked)
StartPass(w, h, caller) ==
    LET pl == UpdateSlotsSync(w, h, lightDom[h]) IN
    [done |-> pl.waiting = {},
     w |-> IF pl.waiting = {}
           THEN CommitSlots(Fx(pl.w, "domChildren", lightDom[h]), h, pl.map)
           ELSE pl.w,
     pass |-> [host |-> h, caller |-> caller, dom |-> lightDom[h],
               waiting |-> pl.waiting, slotOf |-> pl.slotOf, map |-> pl.map,
               asked |-> Count(pl.w.q, h) > Count(w.q, h)]]

\* The connectedCallback invocations whose `await this._processChildren()` has
\* returned go on to RenderScheduler.renderImmediately(this)
Continue(done) ==
    LET ids == {done[k].caller : k \in 1..Len(done)} \ {0}
        reqs == SelectSeq(done, LAMBDA ps : ps.caller # 0)
    IN  /\ calls' = [i \in DOMAIN calls |->
                        IF i \in ids THEN [calls[i] EXCEPT !.stage = "awaitRender"]
                        ELSE calls[i]]
        /\ immediate' = immediate \o
                          [k \in 1..Len(reqs) |->
                              [node |-> reqs[k].host, call |-> reqs[k].caller]]
        /\ hist' = [h \in Hosts |->
                       IF \E k \in 1..Len(reqs) : reqs[k].host = h
                       THEN hist[h] \o
                            [k \in 1..Len(SelectSeq(reqs, LAMBDA ps : ps.host = h)) |->
                                <<"distributed",
                                  SelectSeq(reqs, LAMBDA ps : ps.host = h)[k].caller>>]
                       ELSE hist[h]]

\* instance[prop] = raw, from application code
UserSet(n, prop, raw) ==
    /\ TagOf[n] \in defined
    /\ prop \in PropsOfTag(TagOf[n])
    /\ Apply(SetProp(Fx(Fx(Fx(World, "set", n), "prop", prop), "raw", raw),
                     n, prop, raw))
    /\ UNCHANGED <<lightDom, immediate, passes, connVars, cls, classVars, hist, nmut>>

\* element.setAttribute(name, value) / element.removeAttribute(name) by
\* application code (value "null": removal, which calls back only when the
\* attribute is there)
UserSetAttribute(n, name, value) ==
    /\ TagOf[n] \in defined
    /\ name \in PropsOfTag(TagOf[n])
    /\ value = "null" => attrs[n][name] # "null"
    /\ Apply(SetAttribute(Fx(Fx(Fx(World, "attr", n), "prop", name), "raw", value),
                          n, name, value))
    /\ UNCHANGED <<lightDom, immediate, passes, connVars, cls, classVars, hist, nmut>>

\* connectedCallback() that creates _domRefReadyPromise anew, as the constructor does
ConnectRecreatesPromise(h) ==
    /\ ~inDoc[h]
    /\ Len(calls) < MaxConnects
    /\ LET id == Len(calls) + 1
           sp == StartPass(Fx(Fx(World, "connectedCallback", h), "observe", h), h, id)
       IN  /\ Apply(sp.w)
           /\ passes' = IF sp.done THEN passes ELSE Append(passes, sp.pass)
           /\ calls' = Append(calls,
                  [host |-> h,
                   stage |-> IF sp.done THEN "awaitRender" ELSE "awaitChildren"])
           /\ immediate' = IF sp.done
                           THEN Append(immediate, [node |-> h, call |-> id])
                           ELSE immediate
           /\ hist' = [hist EXCEPT ![h] =
                          @ \o <<<<"observe", id>>>> \o
                          (IF sp.done THEN <<<<"distributed", id>>>> ELSE <<>>)]
    /\ inDoc' = [inDoc EXCEPT ![h] = TRUE]
    /\ observing' = [observing EXCEPT ![h] = TRUE]
    /\ ready' = [ready EXCEPT ![h] = FALSE]
    /\ UNCHANGED <<lightDom, mutated, cls, classVars, nmut>>

\* connectedCallback(), up to its first suspension
Connect(h) ==
    /\ ~inDoc[h]
    /\ Len(calls) < MaxConnects
    /\ LET id == Len(calls) + 1
           sp == StartPass(Fx(Fx(World, "connectedCallback", h), "observe", h), h, id)
       IN  /\ Apply(sp.w)
           /\ passes' = IF sp.done THEN passes ELSE Append(passes, sp.pass)
           /\ calls' = Append(calls,
                  [host |-> h,
                   stage |-> IF sp.done THEN "awaitRender" ELSE "awaitChildren"])
           /\ immediate' = IF sp.done
                           THEN Append(immediate, [node |-> h, call |-> id])
                           ELSE immediate
           /\ hist' = [hist EXCEPT ![h] =
                          @ \o <<<<"observe", id>>>> \o
                          (IF sp.done THEN <<<<"distributed", id>>>> ELSE <<>>)]
    /\ inDoc' = [inDoc EXCEPT ![h] = TRUE]
    /\ observing' = [observing EXCEPT ![h] = TRUE]
    /\ UNCHANGED <<lightDom, mutated, ready, cls, classVars, nmut>>

\* The immediate render of a connectedCallback, then the rest of the callback:
\* resolve _domRefReadyPromise, onEnterDOM, the static-area fragment
RunImmediate ==
    /\ immediate # <<>>
    /\ LET h == Head(immediate).node
           id == Head(immediate).call
       IN  \E hc \in HookChoices :
             LET w1 == Render(Fx(World, "_render", h), h, hc)
                 w2 == Fx(w1, "resolveReady", h)
                 w3 == IF "onEnterDOM" \in cls.hooks THEN Fx(w2, "onEnterDOM", h) ELSE w2
                 w4 == UpdateFragment(w3, h)
             IN  /\ Apply(w4)
                 /\ immediate' = Tail(immediate)
                 /\ calls' = [calls EXCEPT ![id].stage = "done"]
                 /\ ready' = [ready EXCEPT ![h] = TRUE]
                 /\ hist' = [hist EXCEPT ![h] =
                                @ \o <<<<"rendered", id>>, <<"ready", id>>>> \o
                                (IF "onEnterDOM" \in cls.hooks
                                 THEN <<<<"enter", id>>>> ELSE <<>>)]
    /\ UNCHANGED <<lightDom, passes, observing, mutated, inDoc, cls, classVars, nmut>>

\* disconnectedCallback()
Disconnect(h) ==
    /\ inDoc[h]
    /\ inDoc' = [inDoc EXCEPT ![h] = FALSE]
    /\ observing' = [observing EXCEPT ![h] = FALSE]
    /\ mutated' = [mutated EXCEPT ![h] = FALSE]
    /\ hist' = [hist EXCEPT ![h] =
                   IF "onExitDOM" \in cls.hooks THEN Append(@, <<"exit", 0>>) ELSE @]
    /\ trace' = <<<<"disconnectedCallback", h>>, <<"unobserve", h>>>> \o
                (IF "onExitDOM" \in cls.hooks THEN <<<<"onExitDOM", h>>>> ELSE <<>>) \o
                (IF cls.staticArea THEN <<<<"removeFragment", h>>>> ELSE <<>>)
    /\ UNCHANGED <<domVars, stateVars, schedVars, passVars, regVars, calls, ready,
                   cls, classVars, rendered, batch, committed, nmut>>

\* The scheduler runs the deferred render task at the head of its queue
RunRenderTask ==
    /\ queue # <<>>
    /\ LET h == Head(queue) IN
       \E hc \in HookChoices :
           Apply(Render(Fx([World EXCEPT !.q = Tail(queue)], "_render", h), h, hc))
    /\ UNCHANGED <<lightDom, immediate, passes, connVars, cls, classVars, hist, nmut>>

\* The awaits that end when tag t is defined or its timeout fires: the waiting
\* children continue, and the passes left with nothing to wait for commit
Resume(w, t) ==
    LET r == ResumePasses([w |-> w, ps |-> <<>>], passes, t) IN
    /\ Apply(CommitDone(r.w, r.ps))
    /\ passes' = SelectSeq(r.ps, IsWaiting)
    /\ Continue(SelectSeq(r.ps, IsDone))

\* window.customElements.define(t, ...) by some other module
DefineTag(t) ==
    /\ t \in CustomTags \ defined
    /\ Resume(Fx([World EXCEPT !.defined = @ \cup {t}], "define", t), t)
    /\ registeredBy' = [registeredBy EXCEPT ![t] = "other"]
    /\ UNCHANGED <<lightDom, observing, mutated, inDoc, ready, cls, objVars, nmut, defineCalls,
                   definitionsSet, accessors, ceDefines>>

\* The oldest setTimeout(resolve, 1000) of elementTimeouts fires
TimeoutFires ==
    /\ timers # <<>>
    /\ LET t == Head(timers) IN
       Resume(Fx([World EXCEPT !.timedOut = @ \cup {t}, !.timers = Tail(@)],
                 "timeout", t), t)
    /\ UNCHANGED <<lightDom, observing, mutated, inDoc, ready, cls, classVars, nmut>>

\* -------------------------------------------------------------- define()
\* _generateAccessors() throws: a property name that is not valid, or the test
\* propData.type === "boolean" && propData.defaultValue
GenerateAccessorsThrows(klass) ==
    \E propData \in KlassProps(klass) :
        \/ ~IsValidPropertyName(propData.name)
        \/ propData.type = "boolean" /\ Truthy(propData.defaultValue)

\* DefinitionsSet.add(tag): a Set holds a value once
SetAdd(set, tag) == IF tag \in Range(set) THEN set ELSE Append(set, tag)

\* define() that registers whenever it does not warn
DefineBranchAlways(definedLocally, definedGlobally) ==
    IF definedGlobally /\ ~definedLocally THEN "warn" ELSE "register"

\* The branch define() takes after its awaits
DefineBranch(definedLocally, definedGlobally) ==
    IF definedGlobally /\ ~definedLocally
    THEN "warn"
    ELSE IF ~definedGlobally THEN "register" ELSE "skip"

\* what the tail of define() leaves alone when it does not register
resumeVars ==
    <<state, slotState, attrs, invalidated, suppress, shadow, monitored, queue,
      listening, indiv, slotAttr, timers, defined, timedOut, rendered, batch,
      committed, passes, calls, immediate, hist>>

\* define() from `const tag = ...` to its return: synchronous
DefineTail(i) ==
    LET klass == defineCalls[i].klass
        tag == KlassTag[klass]
        branch == DefineBranch(tag \in Range(definitionsSet), tag \in defined)
        throws == branch = "register" /\ GenerateAccessorsThrows(klass)
        registers == branch = "register" /\ ~throws
    IN  /\ defineCalls' = [defineCalls EXCEPT ![i].stage =
                               IF throws THEN "rejected"
                               ELSE IF registers THEN "registered"
                               ELSE IF branch = "warn" THEN "warned" ELSE "skipped"]
        /\ accessors' = IF registers THEN [accessors EXCEPT ![klass] = @ + 1]
                        ELSE accessors
        /\ definitionsSet' = IF registers THEN SetAdd(definitionsSet, tag)
                             ELSE definitionsSet
        /\ ceDefines' = IF registers THEN [ceDefines EXCEPT ![tag] = @ + 1]
                        ELSE ceDefines
        /\ registeredBy' = IF registers /\ tag \notin defined
                           THEN [registeredBy EXCEPT ![tag] = klass]
                           ELSE registeredBy
        /\ IF registers
           THEN Resume(Fx(Fx(Fx([World EXCEPT !.defined = @ \cup {tag}],
                                "define()", klass),
                             "_generateAccessors", klass),
                          "customElements.define", tag),
                       tag)
           ELSE /\ trace' = <<<<"define()", klass>>,
                              <<IF throws THEN "throw"
                                ELSE IF branch = "warn" THEN "warn" ELSE "skip", tag>>>>
                /\ UNCHANGED resumeVars
        /\ UNCHANGED <<lightDom, observing, mutated, inDoc, ready, cls, objVars, nmut>>

\* klass.define() is called: it runs to `await boot()`
DefineCall(klass) ==
    /\ Len(defineCalls) < MaxDefines
    /\ defineCalls' = Append(defineCalls, [klass |-> klass, stage |-> "boot"])
    /\ trace' = <<<<"define()", klass>>, <<"boot", klass>>>>
    /\ UNCHANGED <<resumeVars, lightDom, observing, mutated, inDoc, ready, cls, objVars, nmut,
                   definitionsSet, accessors, ceDefines, registeredBy>>

\* `await boot()` returns: define() goes on to `await this.onDefine()`, or to
\* its tail when the class has no onDefine
DefineAfterBoot(i) ==
    /\ i \in DOMAIN defineCalls
    /\ defineCalls[i].stage = "boot"
    /\ IF HasOnDefine(defineCalls[i].klass)
       THEN /\ defineCalls' = [defineCalls EXCEPT ![i].stage = "onDefine"]
            /\ trace' = <<<<"define()", defineCalls[i].klass>>,
                          <<"onDefine", defineCalls[i].klass>>>>
            /\ UNCHANGED <<resumeVars, lightDom, observing, mutated, inDoc, ready,
                           cls, objVars, nmut, definitionsSet, accessors, ceDefines,
                           registeredBy>>
       ELSE DefineTail(i)

\* `await this.onDefine()` returns
DefineAfterOnDefine(i) ==
    /\ i \in DOMAIN defineCalls
    /\ defineCalls[i].stage = "onDefine"
    /\ DefineTail(i)

\* host.removeChild(c) by application code
RemoveChild(h, c) ==
    /\ nmut < MaxMutations
    /\ c \in Range(lightDom[h])
    /\ lightDom' = [lightDom EXCEPT ![h] = SelectSeq(@, LAMBDA x : x # c)]
    /\ mutated' = [mutated EXCEPT ![h] = @ \/ observing[h]]
    /\ nmut' = nmut + 1
    /\ trace' = <<<<"removeChild", c>>>>
    /\ UNCHANGED <<slotAttr, indiv, listening, stateVars, schedVars, passVars,
                   regVars, observing, inDoc, calls, ready, cls, classVars, rendered,
                   hist, batch, committed>>

\* host.appendChild(c) by application code, for a child that has no parent
AppendChild(h, c) ==
    /\ nmut < MaxMutations
    /\ ParentOf(c) = NoNode
    /\ lightDom' = [lightDom EXCEPT ![h] = Append(@, c)]
    /\ mutated' = [mutated EXCEPT ![h] = @ \/ observing[h]]
    /\ nmut' = nmut + 1
    /\ trace' = <<<<"appendChild", c>>>>
    /\ UNCHANGED <<slotAttr, indiv, listening, stateVars, schedVars, passVars,
                   regVars, observing, inDoc, calls, ready, cls, classVars, rendered,
                   hist, batch, committed>>

\* to.appendChild(c) by application code, for a child of another host: the DOM
\* takes the child out of its parent and both hosts get a child-list record
MoveChild(to, c) ==
    /\ nmut < MaxMutations
    /\ ParentOf(c) \in Hosts \ {to}
    /\ lightDom' = [h \in Hosts |->
                       IF h = to THEN Append(lightDom[h], c)
                       ELSE SelectSeq(lightDom[h], LAMBDA x : x # c)]
    /\ mutated' = [h \in Hosts |->
                      mutated[h] \/ (observing[h] /\ h \in {to, ParentOf(c)})]
    /\ nmut' = nmut + 1
    /\ trace' = <<<<"moveChild", c>>>>
    /\ UNCHANGED <<slotAttr, indiv, listening, stateVars, schedVars, passVars,
                   regVars, observing, inDoc, calls, ready, cls, classVars, rendered,
                   hist, batch, committed>>

\* DOMObserver delivers the child-list records: _processChildren()
ObserverCallback(h) ==
    /\ mutated[h]
    /\ Len(passes) < MaxPasses
    /\ LET sp == StartPass(Fx(World, "childListChanged", h), h, 0) IN
       /\ Apply(sp.w)
       /\ passes' = IF sp.done THEN passes ELSE Append(passes, sp.pass)
    /\ mutated' = [mutated EXCEPT ![h] = FALSE]
    /\ UNCHANGED <<lightDom, immediate, observing, inDoc, calls, ready, cls, classVars,
                   hist, nmut>>

\* ----------------------------------------------------------- specifications
\* Spec: one host with a component child in slot x and a div in the default
\* slot; the host is connected once, then written to and rendered.
Init ==
    InitWith(<<"a", "c">>,
             [k \in Kids |-> IF k = "a" THEN SlotX ELSE <<>>],
             CustomTags,
             {FullClass, BareClass})

\* the values application code assigns
UserWrites ==
    {<<"P", "p", "">>, <<"P", "p", "v">>, <<"P", "p", "w">>, <<"P", "q", "v">>,
     <<"a", "text", "v">>, <<"a", "sel", "T">>, <<"a", "sel", "">>}

Next ==
    \/ \E h \in OneHost : Connect(h)
    \/ RunImmediate
    \/ RunRenderTask
    \/ \E wr \in UserWrites : UserSet(wr[1], wr[2], wr[3])

Spec == Init /\ [][Next]_vars

\* SpecLifecycle: the same host, connected, disconnected and connected again
InitLifecycle ==
    InitWith(<<"a", "c">>,
             [k \in Kids |-> IF k = "a" THEN SlotX ELSE <<>>],
             {"ui5-host", "ui5-item-b"},
             {FullClass})

LifecycleWrites == {<<"P", "p", "v">>}

NextLifecycle ==
    \/ \E h \in OneHost : Connect(h)
    \/ \E h \in OneHost : Disconnect(h)
    \/ RunImmediate
    \/ RunRenderTask
    \/ \E t \in CustomTags : DefineTag(t)
    \/ TimeoutFires
    \/ \E wr \in LifecycleWrites : UserSet(wr[1], wr[2], wr[3])

SpecLifecycle == InitLifecycle /\ [][NextLifecycle]_vars

\* SpecSlots: the host has the component children a and b in slot x (with
\* explicit individual slot names) and a div in the default slot; the classes
\* of a and b are not defined when the host is created.  Children are removed
\* and appended before the host is connected, while its distribution passes
\* wait, and after them.
InitSlots ==
    InitWith(<<"a", "b", "c">>,
             [k \in Kids |-> IF k = "a" THEN <<"x", "-", "2">>
                             ELSE IF k = "b" THEN <<"x", "-", "1">> ELSE <<>>],
             {"ui5-host"},
             {BareClass})

SlotsWrites ==
    {<<"a", "text", "v">>, <<"a", "sel", "T">>, <<"b", "icon", "v">>}

NextSlots ==
    \/ \E h \in OneHost : Connect(h)
    \/ RunImmediate
    \/ RunRenderTask
    \/ \E t \in CustomTags : DefineTag(t)
    \/ TimeoutFires
    \/ \E h \in OneHost, c \in Kids : RemoveChild(h, c)
    \/ \E h \in OneHost, c \in Kids : AppendChild(h, c)
    \/ \E h \in OneHost : ObserverCallback(h)
    \/ \E wr \in SlotsWrites : UserSet(wr[1], wr[2], wr[3])

SpecSlots == InitSlots /\ [][NextSlots]_vars

\* The setTimeout(resolve, 1000) at the head of elementTimeouts fires: what
\* TimeoutFires does to timers.  TimeoutFires is enabled exactly when timers is
\* not empty, and no other handler removes a timer.
TimerExpires == timers # <<>> /\ timers' = Tail(timers)

\* SpecTimeout: the children of SpecSlots, of which the class of b is never
\* defined, under an event loop that runs every timer that is due: a
\* setTimeout(resolve, 1000) that was set fires.
NextTimeout ==
    \/ \E h \in OneHost : Connect(h)
    \/ RunImmediate
    \/ DefineTag("ui5-item-a")
    \/ TimeoutFires
    \/ \E h \in OneHost, c \in Kids : RemoveChild(h, c)
    \/ \E h \in OneHost : ObserverCallback(h)

SpecTimeout ==
    /\ InitSlots
    /\ [][NextTimeout]_vars
    /\ WF_timers(TimerExpires)

\* SpecLive: the host with every class defined is connected, written to and
\* disconnected, under a scheduler that runs every render it was asked for: a
\* deferred task at the head of the queue and an immediate render are not
\* postponed for ever.
InitLive ==
    InitWith(<<"a", "c">>,
             [k \in Kids |-> IF k = "a" THEN SlotX ELSE <<>>],
             CustomTags,
             {BareClass})

LiveWrites == {<<"P", "p", "v">>, <<"P", "p", "w">>}

NextLive ==
    \/ \E h \in OneHost : Connect(h)
    \/ \E h \in OneHost : Disconnect(h)
    \/ RunImmediate
    \/ RunRenderTask
    \/ \E wr \in LiveWrites : UserSet(wr[1], wr[2], wr[3])

SpecLive ==
    /\ InitLive
    /\ [][NextLive]_vars
    /\ WF_vars(RunRenderTask)
    /\ WF_vars(RunImmediate)

\* SpecProps: the connected host and its component child are written to through
\* their setters and through their attributes, with valid and invalid values.
InitProps ==
    InitWith(<<"a", "c">>,
             [k \in Kids |-> IF k = "a" THEN SlotX ELSE <<>>],
             CustomTags,
             {BareClass})

PropsWrites ==
    {<<"P", "p", "v">>, <<"P", "p", "w">>, <<"P", "p", "#object">>,
     <<"a", "text", "v">>, <<"a", "text", "#object">>,
     <<"a", "sel", "T">>, <<"a", "sel", "F">>, <<"a", "sel", "v">>, <<"a", "sel", "">>}

AttributeWrites ==
    {<<"a", "sel", "">>, <<"a", "sel", "false">>, <<"a", "sel", "null">>,
     <<"P", "p", "w">>, <<"P", "p", "null">>}

NextProps ==
    \/ \E h \in OneHost : Connect(h)
    \/ RunImmediate
    \/ RunRenderTask
    \/ \E wr \in PropsWrites : UserSet(wr[1], wr[2], wr[3])
    \/ \E wr \in AttributeWrites : UserSetAttribute(wr[1], wr[2], wr[3])

SpecProps == InitProps /\ [][NextProps]_vars

\* SpecDefine: the classes call define(), any number of times and with their
\* awaits overlapping, while another copy of the library may register the tags
\* of ItemA and ItemB first.
InitDefine ==
    InitWith(<<"a", "b", "c">>,
             [k \in Kids |-> IF k = "c" THEN <<>> ELSE SlotX],
             {"ui5-host"},
             {BareClass})

NextDefine ==
    \/ \E klass \in Klasses : DefineCall(klass)
    \/ \E i \in 1..MaxDefines : DefineAfterBoot(i)
    \/ \E i \in 1..MaxDefines : DefineAfterOnDefine(i)
    \/ \E t \in CustomTags : DefineTag(t)

SpecDefine == InitDefine /\ [][NextDefine]_vars

\* ------------------------------------------------------- instance state
\* everything but the heap, the cached default state and the instances
elementVars ==
    <<lightDom, slotAttr, indiv, listening, state, slotState, attrs, invalidated,
      suppress, shadow, monitored, queue, immediate, passes, defined, timers,
      timedOut, observing, mutated, inDoc, calls, ready, cls, rendered, trace,
      hist, batch, committed, nmut, defineCalls, definitionsSet, accessors,
      ceDefines, registeredBy>>

\* new Klass(): the constructor calls _initializeState()
InitializeState(i) ==
    LET r == GetDefaultState(heap, defaultState) IN
    /\ instState[i] = NoState
    /\ heap' = r.heap
    /\ defaultState' = r.defaultState
    /\ instState' = [instState EXCEPT ![i] = ObjectAssign(r.defaultState)]
    /\ owned' = [owned EXCEPT ![i] = Deref(r.heap, r.defaultState)]
    /\ UNCHANGED elementVars

\* inst.title = value
SetTitle(i, value) ==
    /\ instState[i] # NoState
    /\ instState' = [instState EXCEPT ![i].title = value]
    /\ owned' = [owned EXCEPT ![i].title = value]
    /\ UNCHANGED <<elementVars, heap, defaultState>>

\* inst.tags = [item]: the setter stores the new array
SetTags(i, item) ==
    /\ instState[i] # NoState
    /\ Len(heap) < MaxObjects
    /\ heap' = Append(heap, <<item>>)
    /\ instState' = [instState EXCEPT ![i].tags = Len(heap) + 1]
    /\ owned' = [owned EXCEPT ![i].tags = <<item>>]
    /\ UNCHANGED <<elementVars, defaultState>>

\* inst[prop] is read (the getter returns this._state[prop], the array or
\* object itself) and an entry is added to what was obtained
MutateObtained(i, prop, item) ==
    /\ instState[i] # NoState
    /\ Len(heap[instState[i][prop]]) < MaxItems
    /\ heap' = [heap EXCEPT ![instState[i][prop]] = Append(@, item)]
    /\ owned' = [owned EXCEPT ![i][prop] = Append(@, item)]
    /\ UNCHANGED <<elementVars, defaultState, instState>>

\* _clearSlot("items") of the instance: this._state[propertyName] = []
ClearSlotOf(i) ==
    /\ instState[i] # NoState
    /\ Len(heap) < MaxObjects
    /\ heap' = Append(heap, <<>>)
    /\ instState' = [instState EXCEPT ![i].items = Len(heap) + 1]
    /\ owned' = [owned EXCEPT ![i].items = <<>>]
    /\ UNCHANGED <<elementVars, defaultState>>

\* SpecState: two instances of the class are created, written to and read
InitState ==
    InitWith(<<"a", "c">>,
             [k \in Kids |-> IF k = "a" THEN SlotX ELSE <<>>],
             CustomTags,
             {BareClass})

NextState ==
    \/ \E i \in Insts : InitializeState(i)
    \/ \E i \in Insts : SetTitle(i, "v")
    \/ \E i \in Insts : SetTags(i, "x")
    \/ \E i \in Insts : \E prop \in RefProps : MutateObtained(i, prop, "x")
    \/ \E i \in Insts : ClearSlotOf(i)

SpecState == InitState /\ [][NextState]_vars

\* SpecMove: two instances of the host class, P with the component child a in
\* slot x and a div, Q without children; every class is defined.  Both are
\* connected, a is moved from one to the other, and the observers of the two
\* hosts deliver their records in either order.
InitMove ==
    InitWith(<<"a", "c">>,
             [k \in Kids |-> IF k = "a" THEN SlotX ELSE <<>>],
             CustomTags,
             {BareClass})

MoveWrites == {<<"a", "text", "v">>}

NextMove ==
    \/ \E h \in Hosts : Connect(h)
    \/ RunImmediate
    \/ RunRenderTask
    \/ \E to \in Hosts : MoveChild(to, "a")
    \/ \E h \in Hosts : ObserverCallback(h)
    \/ \E wr \in MoveWrites : UserSet(wr[1], wr[2], wr[3])

SpecMove == InitMove /\ [][NextMove]_vars

\* ------------------------------------------------------------------- claims
\* reading the record of the last handler run
TraceIs(kind) == trace # <<>> /\ trace[1][1] = kind

TraceHas(ev, n) == \E i \in 1..Len(trace) : trace[i] = <<ev, n>>

FirstIndex(ev, n) == Min({i \in 1..Len(trace) : trace[i] = <<ev, n>>})

C2_Step ==
    (TraceIs("set")' /\
     ValidatePropertyValue(trace'[3][2], TypeOfProp(trace'[2][2]))
        = state[trace'[1][2]][trace'[2][2]])
    => /\ UNCHANGED <<state, slotState, attrs, invalidated, queue, immediate>>
       /\ Len(trace') = 3

C2_SameValueIsNoOp == [][C2_Step]_vars

\* a rendered, clean host was assigned the value it already held
C2_Witness ==
    /\ trace = <<<<"set", "P">>, <<"prop", "p">>, <<"raw", "v">>>>
    /\ state["P"]["p"] = "v"
    /\ shadow["P"] /\ ~invalidated["P"] /\ queue = <<>>

\* C3: a node never has more than one deferred render task in the queue, the
\* task is there exactly while _invalidated is set, and a setter of a host
\* enqueues (once) only if the flag was clear, the host had rendered output
\* and invalidation was not suppressed; otherwise flag and queue are untouched.
C3_State ==
    \A n \in Nodes :
        /\ Count(queue, n) <= 1
        /\ invalidated[n] <=> Count(queue, n) = 1
        /\ invalidated[n] => shadow[n]

C3_Step ==
    (TraceIs("set")' /\ trace'[1][2] \in Hosts) =>
        LET h == trace'[1][2] IN
        IF state'[h] # state[h] /\ ~invalidated[h] /\ shadow[h] /\ ~suppress[h]
        THEN queue' = Append(queue, h) /\ invalidated' = [invalidated EXCEPT ![h] = TRUE]
        ELSE queue' = queue /\ invalidated' = invalidated

C4_SuppressedUntilResumed ==
    TraceIs("_render") =>
        LET h == trace[1][2] IN
        \A i \in 1..FirstIndex("unsuppress", h) : trace[i] # <<"renderDeferred", h>>

\* C4 as stated: no hook of the render, onAfterRendering included, enqueues a
\* render task of the host.
C4_NoEnqueueDuringRender ==
    TraceIs("_render") => ~TraceHas("renderDeferred", trace[1][2])

\* onBeforeRendering changed a property in the render of a second connection:
\* the host had rendered output and no task pending
C4_Witness ==
    /\ TraceIs("_render") /\ TraceHas("resolveReady", "P")
    /\ Len(calls) = 2 /\ calls[1].stage = "done" /\ calls[2].stage = "done"
    /\ queue = <<>>
    /\ \E i \in 1..FirstIndex("unsuppress", "P") :
          /\ trace[i] = <<"_invalidate", "P">>
          /\ trace[i - 1] = <<"onBeforeRendering", "P">>

\* C5: the steps of every _render run in the order of section 4.6, each
\* optional step there exactly when the class has it.
RenderSteps == {"suppress", "onBeforeRendering", "_onComponentStateFinalized",
                "unsuppress", "renderer", "staticArea", "assignSlots",
                "onAfterRendering"}

RenderPart ==
    IF TraceHas("resolveReady", trace[1][2])
    THEN SubSeq(trace, 1, FirstIndex("resolveReady", trace[1][2]) - 1)
    ELSE trace

StepsDone ==
    LET steps == SelectSeq(RenderPart, LAMBDA e : e[1] \in RenderSteps)
    IN  [i \in 1..Len(steps) |-> steps[i][1]]

Optional(present, step) == IF present THEN <<step>> ELSE <<>>

StepsExpected ==
    <<"suppress">>
    \o Optional("onBeforeRendering" \in cls.hooks, "onBeforeRendering")
    \o Optional("_onComponentStateFinalized" \in cls.hooks, "_onComponentStateFinalized")
    \o <<"unsuppress", "renderer">>
    \o Optional(cls.staticArea, "staticArea")
    \o <<"assignSlots">>
    \o Optional("onAfterRendering" \in cls.hooks, "onAfterRendering")

C5_RenderOrder == TraceIs("_render") => StepsDone = StepsExpected

\* a render of the class that has every optional step
C5_Witness == TraceIs("_render") /\ cls = FullClass /\ Len(StepsDone) = 8

\* C6: the events of one connection of a host occur in the order observe,
\* distributed, rendered, ready, enter; the ready signal is resolved only once
\* the host has rendered output, and once resolved it stays resolved.
ConnectionOrder == <<"observe", "distributed", "rendered", "ready", "enter">>

EventsOf(h, id) ==
    LET evs == SelectSeq(hist[h], LAMBDA e : e[2] = id)
    IN  [i \in 1..Len(evs) |-> evs[i][1]]

C6_State ==
    \A h \in Hosts :
        /\ \A id \in 1..Len(calls) :
              /\ Len(EventsOf(h, id)) <= Len(ConnectionOrder)
              /\ EventsOf(h, id) = SubSeq(ConnectionOrder, 1, Len(EventsOf(h, id)))
        /\ ready[h] => shadow[h]
        /\ TraceHas("resolveReady", h) =>
              /\ FirstIndex("renderer", h) < FirstIndex("resolveReady", h)
              /\ TraceHas("onEnterDOM", h)
              /\ FirstIndex("resolveReady", h) < FirstIndex("onEnterDOM", h)
        /\ (TraceIs("connectedCallback") /\ trace[1][2] = h) =>
              FirstIndex("observe", h) < FirstIndex("_updateSlots", h)

C6_Step == \A h \in Hosts : ready[h] => ready'[h]

C6_ConnectionOrder == []C6_State /\ [][C6_Step]_vars

\* a second connection of the host ran to its onEnterDOM
C6_Witness == ready["P"] /\ <<"enter", 2>> \in Range(hist["P"])

\* the last commit of a pass of h in the handler run, and the children that
\* pass distributed (its domChildren)
LastCommit(h) ==
    CHOOSE i \in 1..Len(trace) :
        /\ trace[i][1] = "commitSlots" /\ trace[i][2] = h
        /\ \A j \in (i + 1)..Len(trace) :
              ~(trace[j][1] = "commitSlots" /\ trace[j][2] = h)

Committed(h) == \E i \in 1..Len(trace) : trace[i][1] = "commitSlots" /\ trace[i][2] = h

\* the children of dom whose slot attribute names slot s, in document order
AcceptedIn(dom, s) == SelectSeq(dom, LAMBDA k : GetSlotName(slotAttr[k]) = s)

\* C7: when a distribution pass commits, every slot's backing sequence lists
\* exactly the children the pass accepted for that slot, in the document order
\* of the children the pass distributed, whatever the order in which the
\* children's definitions arrived or timed out.
C7_CommitInDocumentOrder ==
    \A h \in Hosts :
        Committed(h) =>
            \A s \in SlotNames :
                slotState[h][SlotsMap[s].propertyName] =
                    AcceptedIn(trace[LastCommit(h) - 1][2], s)

\* C7, the part that holds: the children of a slot that a committing pass
\* accepted stand in that slot in document order
C7_AcceptedInDocumentOrder ==
    \A h \in Hosts :
        Committed(h) =>
            \A s \in SlotNames :
                AcceptedIn(trace[LastCommit(h) - 1][2], s) # <<>> =>
                    slotState[h][SlotsMap[s].propertyName] =
                        AcceptedIn(trace[LastCommit(h) - 1][2], s)

\* b's definition arrived before a's, and the pass committed a before b
C7_Witness ==
    /\ TraceIs("define") /\ trace[1][2] = "ui5-item-a"
    /\ Committed("P")
    /\ "ui5-item-b" \in defined
    /\ slotState["P"]["items"] = <<"a", "b">>

\* C8: whenever other code can run (between two handler runs), the slot
\* accessors give the slots as the last finished distribution pass left them
\* (as the constructor left them before the first), and every render of the
\* component has read such a state: the state of a pass that has started and
\* not committed is never seen.
C8_AtomicDistribution ==
    \A h \in Hosts :
        /\ slotState[h] = committed[h]
        /\ rendered[h].slots = rendered[h].stable

\* C8, a read of the accessors alone
C8_AccessorsAtomic == \A h \in Hosts : slotState[h] = committed[h]

\* C8, the renders alone
C8_RendersAtomic == \A h \in Hosts : rendered[h].slots = rendered[h].stable

\* the slot of h that holds the child k (<<>>: none does)
SlotHolding(h, k) ==
    IF \E s \in SlotNames : k \in Range(slotState[h][SlotsMap[s].propertyName])
    THEN CHOOSE s \in SlotNames : k \in Range(slotState[h][SlotsMap[s].propertyName])
    ELSE <<>>

\* the observed and the excluded set that the slot declares for the child k
ObservedFor(s, k) ==
    LET listenFor == SlotsMap[s].listenFor IN
    IF listenFor.kind = "array" \/ listenFor.hasProps
    THEN listenFor.props ELSE PropsOfTag(TagOf[k])

ExcludedFor(s) ==
    LET listenFor == SlotsMap[s].listenFor IN
    IF listenFor.kind = "object" /\ listenFor.hasExclude THEN listenFor.exclude ELSE {}

\* the last handler run was a write that changed property prop of the child k
ChildChanged(k, prop) ==
    /\ TraceIs("set") /\ trace[1][2] = k /\ trace[2][2] = prop
    /\ TraceHas("_propertyChange", k)

\* C9: for a component child of h that populates a slot with listenFor and
\* carries the change listener, a change of an excluded property does not reach
\* the parent's _invalidate, and a change of an observed, not excluded property
\* calls it with the "_parent_" reason, whichever class was distributed into the
\* slot first.
C9_ChildChangePropagation ==
    \A h \in Hosts, k \in Kids, prop \in AllProps :
        (/\ ChildChanged(k, prop)
         /\ ParentOf(k) = h
         /\ listening[k]
         /\ SlotHolding(h, k) # <<>>
         /\ SlotsMap[SlotHolding(h, k)].listenFor.kind # "none") =>
            LET s == SlotHolding(h, k) IN
            /\ prop \in ExcludedFor(s) => ~TraceHas("_parent_", h)
            /\ prop \in ObservedFor(s, k) \ ExcludedFor(s) => TraceHas("_parent_", h)

\* C10: a property change of a child that is no longer in the light DOM of a
\* host never calls that host's _invalidate and never enqueues a render of it,
\* whether or not the host's redistribution pass has run since the removal.
C10_DetachedChildIsSilent ==
    \A h \in Hosts, k \in Kids :
        (TraceIs("set") /\ trace[1][2] = k /\ k \notin Range(lightDom[h])) =>
            /\ ~TraceHas("_parent_", h)
            /\ ~TraceHas("_invalidate", h)
            /\ ~TraceHas("renderDeferred", h)

\* the observed property text of a changed after a was removed from the rendered
\* host and before the host redistributed: a is still in slot x and still
\* carries the listener
C10_Witness ==
    /\ ChildChanged("a", "text")
    /\ "a" \notin Range(lightDom["P"])
    /\ listening["a"]
    /\ "a" \in Range(slotState["P"]["items"])
    /\ SlotX \in DOMAIN monitored["P"]
    /\ shadow["P"] /\ ~invalidated["P"]

\* C11: however many define() calls a class makes and however their awaits
\* overlap, its accessors are generated at most once, the definitions set holds
\* its tag at most once and customElements.define is called at most once for
\* the tag, and never for a tag that is registered already; a class whose
\* define() has registered it has had all three happen exactly once.
C11_DefineIdempotent ==
    /\ \A klass \in Klasses : accessors[klass] <= 1
    /\ \A t \in AllTags :
          /\ ceDefines[t] <= 1
          /\ Count(definitionsSet, t) <= 1
          /\ registeredBy[t] = "other" => ceDefines[t] = 0
          /\ registeredBy[t] \in Klasses =>
                /\ accessors[registeredBy[t]] = 1
                /\ ceDefines[t] = 1
                /\ Count(definitionsSet, t) = 1
    /\ \A i \in DOMAIN defineCalls :
          defineCalls[i].stage \in {"registered", "skipped"} =>
              LET t == KlassTag[defineCalls[i].klass] IN
              /\ t \in defined
              /\ registeredBy[t] = defineCalls[i].klass =>
                    accessors[defineCalls[i].klass] = 1

\* two define() calls of ItemA overlapped: the one called later registered the
\* class, the one called earlier then found it registered
C11_Witness ==
    \E i, j \in DOMAIN defineCalls :
        /\ j < i
        /\ defineCalls[i].klass = "ItemA" /\ defineCalls[j].klass = "ItemA"
        /\ defineCalls[i].stage = "registered"
        /\ defineCalls[j].stage = "skipped"
        /\ accessors["ItemA"] = 1 /\ ceDefines["ui5-item-a"] = 1

\* the Boolean properties of n that have an attribute
BooleanAttributes(n) ==
    {prop \in PropsOfTag(TagOf[n]) : TypeOfProp(prop) = "Boolean" /\ HasAttribute(prop)}

\* C12: for a Boolean property with an attribute, after every handler run
\* (a property set, an attribute added or removed, with the setter and
\* attributeChangedCallback calls they nest) the attribute is present exactly
\* when the property is true; a run changes the attribute at most once and
\* notifies at most once, so the mutual updates end.
C12_BooleanAttributeSync ==
    \A n \in Nodes : \A prop \in BooleanAttributes(n) :
        /\ attrs[n][prop] # "null" <=> state[n][prop] = "T"
        /\ Getter(state, n, prop) \in {"T", "F"}
        /\ (TraceIs("set") \/ TraceIs("attr")) /\ trace[1][2] = n /\ trace[2][2] = prop =>
              /\ Count(trace, <<"setAttribute", n>>) <= 1
              /\ Count(trace, <<"_propertyChange", n>>) <= 1

\* the attribute sel="false" was added to a: the property is true
C12_Witness ==
    /\ TraceIs("attr") /\ trace[1][2] = "a" /\ trace[2][2] = "sel"
    /\ attrs["a"]["sel"] = "false"
    /\ state["a"]["sel"] = "T"
    /\ TraceHas("_propertyChange", "a")

\* C13: a write of V to a String property that passes validation is read back
\* as V; a write that fails validation throws to the caller and changes
\* neither the stored values nor the attributes, requests no invalidation and
\* dispatches no change notification.
C13_Step ==
    (TraceIs("set")' /\ TypeOfProp(trace'[2][2]) = "String") =>
        LET n == trace'[1][2]
            prop == trace'[2][2]
            raw == trace'[3][2]
            Did(ev) == \E i \in 1..Len(trace') : trace'[i] = <<ev, n>>
        IN  IF ValidationFails(raw, "String")
            THEN /\ Did("throw")
                 /\ state' = state /\ attrs' = attrs
                 /\ invalidated' = invalidated /\ queue' = queue
                 /\ ~Did("_invalidate")
                 /\ ~Did("_propertyChange")
            ELSE /\ Getter(state', n, prop) = raw
                 /\ ~Did("throw")

C13_StringRoundTrip == [][C13_Step]_vars

\* the rendered host holds p = "v" and was given an object for p
C13_Witness ==
    /\ TraceIs("set") /\ trace[1][2] = "P" /\ trace[3][2] = "#object"
    /\ TraceHas("throw", "P")
    /\ state["P"]["p"] = "v"
    /\ shadow["P"] /\ ~invalidated["P"]

\* the last handler run was a render of h
RenderRan(h) == TraceIs("_render") /\ trace[1][2] = h

\* C14: an accepted invalidation (flag set, task in the queue) is followed by
\* a render of the instance, also when the instance is disconnected meanwhile;
\* a render reads the state of the moment it runs, so that whenever the
\* scheduler is idle the last render of a rendered instance has read the
\* current value of every property.
C14_Idle ==
    \A h \in Hosts :
        /\ invalidated[h] => Count(queue, h) >= 1
        /\ (queue = <<>> /\ shadow[h]) => rendered[h].props = state[h]

C14_PendingRenderRuns ==
    /\ []C14_Idle
    /\ \A h \in Hosts : (invalidated[h] /\ Count(queue, h) >= 1) ~> RenderRan(h)

\* the host was disconnected with a render pending, and the render ran
C14_Witness ==
    /\ RenderRan("P")
    /\ ~TraceHas("resolveReady", "P")
    /\ ~inDoc["P"]
    /\ rendered["P"].props["p"] = "v"

\* C15: the state of an instance holds the values its own writes made, and the
\* cached default state of the class holds the defaults: what another instance
\* does, a change of an array or object obtained from it included, changes
\* neither.
C15_StateNeverShared ==
    /\ \A i \in Insts :
           instState[i] # NoState => Deref(heap, instState[i]) = owned[i]
    /\ defaultState # NoState => Deref(heap, defaultState) = DefaultValues

\* C16: define() of a class that gives a Boolean property a default other than
\* false ends with an error, and the class is never registered.
C16_BooleanDefaultRejected ==
    /\ registeredBy[KlassTag["Flagged"]] # "Flagged"
    /\ KlassTag["Flagged"] \notin Range(definitionsSet)
    /\ \A i \in DOMAIN defineCalls :
           (defineCalls[i].klass = "Flagged"
            /\ defineCalls[i].stage \notin {"boot", "onDefine"})
           => defineCalls[i].stage = "rejected"

\* the children the last committing pass of h distributed
DomChildren(h) == trace[LastCommit(h) - 1][2]

\* C17 (as stated): a pass over [a(slot=x-2), b(slot=x-1), c] commits slot x
\* with its members in the order [b, a].
C17_MembersBA ==
    \A h \in Hosts :
        (Committed(h) /\ DomChildren(h) = <<"a", "b", "c">>)
        => slotState[h]["items"] = <<"b", "a">>

\* C17 (as amended): a pass over [a(slot=x-2), b(slot=x-1), c] commits slot x
\* with its members in document order, which is [a, b], and the default slot
\* with [c], whichever of the definitions of a and b arrives or times out
\* first.
C17_MembersInDocumentOrder ==
    \A h \in Hosts :
        (Committed(h) /\ DomChildren(h) = <<"a", "b", "c">>)
        => /\ slotState[h]["items"] = <<"a", "b">>
           /\ slotState[h]["content"] = <<"c">>

\* the definition of b arrived first, the wait for a ended later, and the pass
\* over [a, b, c] committed
C17_Witness ==
    /\ Committed("P")
    /\ DomChildren("P") = <<"a", "b", "c">>
    /\ trace[1][2] = "ui5-item-a"
    /\ "ui5-item-b" \in defined
    /\ "ui5-item-b" \notin timedOut
    /\ slotState["P"]["items"] = <<"a", "b">>

\* C18: when no distribution pass is in flight, _monitoredChildProps of a host
\* has an entry for a slot only if a child that carries the change listener
\* stands in that slot, and the entry holds the observed and excluded sets
\* computed for such a child.
C18_WatchInLockstep ==
    \A h \in Hosts :
        passes = <<>> =>
            \A s \in DOMAIN monitored[h] :
                \E k \in Range(slotState[h][SlotsMap[s].propertyName]) :
                    /\ listening[k]
                    /\ monitored[h][s].observedProps = ObservedFor(s, k)
                    /\ monitored[h][s].notObservedProps = ExcludedFor(s)

\* the last commit of the handler run is followed by the call of _invalidate
CommitInvalidates(h) ==
    /\ Committed(h)
    /\ LastCommit(h) < Len(trace)
    /\ trace[LastCommit(h) + 1] = <<"_invalidate", h>>

\* C19: there is at most one timeout per element type, set when a child of
\* the type is first waited for; a child is waited for only while its type is
\* undefined and the timeout of the type has not fired; and distribution
\* passes that wait are followed by a state in which none waits, reached by a
\* commit that calls _invalidate, also when a type is never defined.
C19_OneTimeoutPerType ==
    /\ \A t \in CustomTags : Count(timers, t) <= 1 /\ ~(t \in Range(timers) /\ t \in timedOut)
    /\ \A i \in DOMAIN passes :
           /\ passes[i].waiting # {}
           /\ \A idx \in passes[i].waiting :
                  /\ TagOf[passes[i].dom[idx]] \notin defined
                  /\ TagOf[passes[i].dom[idx]] \in Range(timers)

C19_PassesTerminate ==
    /\ []C19_OneTimeoutPerType
    /\ (passes # <<>>) ~> (passes = <<>> /\ \E h \in Hosts : CommitInvalidates(h))

\* two passes waited for the class of b, which was never defined, and committed
\* when the one timeout of the type fired
C19_Witness ==
    /\ TraceIs("timeout") /\ trace[1][2] = "ui5-item-b"
    /\ "ui5-item-b" \notin defined
    /\ passes = <<>>
    /\ Cardinality({i \in 1..Len(trace) : trace[i] = <<"commitSlots", "P">>}) = 2

\* the step ends the waits for tag t, and with them the last wait of pass i
CommitsPass(i, t) ==
    /\ trace' # <<>>
    /\ trace'[1] \in {<<"define", t>>, <<"timeout", t>>}
    /\ \A idx \in passes[i].waiting : TagOf[passes[i].dom[idx]] = t

\* C20: a distribution pass over a rendered host causes one render: when the
\* _clearSlot calls of the pass have queued a render task for the host, the
\* _invalidate call of its commit is covered by that task and queues no other.
C20_Step ==
    \A i \in DOMAIN passes : \A t \in CustomTags :
        (passes[i].asked /\ CommitsPass(i, t))
        => Count(queue', passes[i].host) = Count(queue, passes[i].host)

C20_OnePassOneRender == [][C20_Step]_vars

\* C21: for an observed host with no distribution pass in flight and no
\* child-list record waiting for delivery, every slot lists the host's current
\* children of that slot, in document order: overlapping passes leave what the
\* pass over the current children computed, and no removed child stays.
C21_OverlappingPassesConverge ==
    \A h \in Hosts :
        (observing[h] /\ ~mutated[h] /\ passes = <<>>) =>
            \A s \in SlotNames :
                slotState[h][SlotsMap[s].propertyName] = AcceptedIn(lightDom[h], s)

\* the onEnterDOM and onExitDOM calls of h so far, in order
HookCalls(h) == SelectSeq(hist[h], LAMBDA e : e[1] \in {"enter", "exit"})

\* C22: the onEnterDOM and onExitDOM calls of a host alternate, beginning with
\* onEnterDOM, and onEnterDOM is called only while the host is connected,
\* also when the host is disconnected, or disconnected and connected again,
\* while a connectedCallback awaits.
C22_HooksAlternate ==
    \A h \in Hosts :
        /\ \A i \in 1..Len(HookCalls(h)) :
               HookCalls(h)[i][1] = IF i % 2 = 1 THEN "enter" ELSE "exit"
        /\ TraceHas("onEnterDOM", h) => inDoc[h]

\* C23: when the observers of all hosts have delivered their records and no
\* pass is in flight, a component child that stands in a listenFor slot of an
\* observed host carries the change listener, also after it was moved there
\* from a listenFor slot of another host, in whichever order the two hosts
\* redistributed.
C23_MovedChildKeepsListener ==
    \A h \in Hosts, k \in Kids :
        (/\ passes = <<>>
         /\ \A g \in Hosts : observing[g] /\ ~mutated[g]
         /\ ParentOf(k) = h
         /\ IsUI5Element(World, k)
         /\ SlotHolding(h, k) # <<>>
         /\ SlotsMap[SlotHolding(h, k)].listenFor.kind # "none")
        => listening[k]

====
